---- MODULE Spec2Model ----
(***************************************************************************)
(* A model of frenetic's stackful coroutine (src/src/lib.rs).              *)
(*                                                                         *)
(* Two contexts share one thread: the driver (Coroutine::new, resume and   *)
(* drop) and the body (the trampoline `callback` and the user closure with *)
(* its Control handle).  Exactly one of them runs at a time; jump_init,    *)
(* jump_swap and jump_into hand control over.  Every step between two      *)
(* context switches of the code is one action; `dpc` and `bpc` are the     *)
(* positions of the driver and of the body in their code.                  *)
(*                                                                         *)
(* The user closure is any FnMut(Control) -> Result<Finished<R>, Canceled>:*)
(* at every point it may call yield on the Control it holds, return        *)
(* Ok(Finished(r)) or return Err(Canceled).                                *)
(***************************************************************************)
EXTENDS Integers, Sequences, FiniteSets

\* ------------------------------------------------------------------ bounds

\* pub const STACK_MINIMUM: usize = 4096;
STACK_MINIMUM == 4096

\* The driver calls resume at most MaxResumes times in one behaviour.
MaxResumes == 3

\* The values the body passes to yield are 1..MaxYieldVal.
MaxYieldVal == 2

\* The values the body completes with are 1..MaxDoneVal.
MaxDoneVal == 2

\* The stack buffers tried have a length within LenSlack of STACK_MINIMUM.
LenSlack == 1

\* const STACK_ALIGNMENT: usize = 16;
STACK_ALIGNMENT == 16

\* The stack buffers whose top is computed start at an address in 1..MaxBase
\* and are up to MaxExtraLen bytes longer than STACK_MINIMUM.
MaxBase == 32
MaxExtraLen == 16

YieldVals == 1..MaxYieldVal
DoneVals == 1..MaxDoneVal
StackLens == (STACK_MINIMUM - LenSlack)..(STACK_MINIMUM + LenSlack)
StackBases == {MaxBase - 1, MaxBase}
TopBases == 1..MaxBase
TopLens == STACK_MINIMUM..(STACK_MINIMUM + MaxExtraLen)

\* ------------------------------------------------------------------- state

VARIABLES
    lifecycle,      \* "none" | "panicked" (new panicked) | "live" | "dropped" | "crashed"
    stackLen,       \* stack.len() handed to Coroutine::new
    ctxSome,        \* Coroutine.ctx is Some (the context record is allocated)
    arg,            \* Context.arg, the transfer slot
    canceled,       \* Context.canceled
    coParent,       \* Coroutine.parent: 0 (null) or the driver call whose state it holds
    ctxParent,      \* Context.parent:   0 (null) or the driver call whose state it holds
    ctxChild,       \* Context.child: "null" | "cb" (in callback) | "yield" (in Control::yield)
    running,        \* "driver" | "body" | "halted"
    dpc,            \* position of the driver
    bpc,            \* position of the body
    hasCtl,         \* the closure holds a Control handle
    ret,            \* the r of the Ok(Finished(r)) the closure returned
    callId,         \* number of driver calls (new, resume, drop) made so far
    \* history, written by the actions and read only by the properties
    results,        \* what each resume call did, in order
    handed,         \* what the body handed over during the current driver call
    yieldArgs,      \* arguments of the yield calls that reached the write of the slot
    yieldLog,       \* every return of a yield call
    invocations,    \* number of times callback called the closure
    installs,       \* number of times callback ran jump_into
    afterInstall,   \* switches into the body context made after a jump_into
    switches,       \* context switches performed in all
    dropFrom,       \* state of the coroutine when drop was called
    releasedAt,     \* bpc at the moment the context record was released
    lastEntry,      \* the driver call that made the latest switch into the body
    lastJump,       \* the latest switch from the body to the driver
    \* the stack buffer
    stackBase,      \* stack.as_mut_ptr(), 0 before Coroutine::new
    growsUp,        \* what stk_grows_up answers on this platform
    stackTop        \* the top handed to jump_init, 0 before it is computed

vars == <<lifecycle, stackLen, ctxSome, arg, canceled, coParent, ctxParent,
          ctxChild, running, dpc, bpc, hasCtl, ret, callId, results, handed,
          yieldArgs, yieldLog, invocations, installs, afterInstall, switches,
          dropFrom, releasedAt, lastEntry, lastJump, stackBase, growsUp,
          stackTop>>

stackVars == <<stackBase, growsUp, stackTop>>
ctxVars == <<ctxSome, arg, canceled, coParent, ctxParent, ctxChild>>
hist == <<results, handed, yieldArgs, yieldLog, invocations, installs,
          afterInstall, switches, dropFrom, releasedAt>>

\* ----------------------------------------------------------------- helpers

\* Option<Box<GeneratorState<Y, R>>>: None
NoneState == [tag |-> "None", val |-> 0]

\* Some(Box::new(GeneratorState::Yielded(a)))
YieldedDefault(a) == [tag |-> "Yielded", val |-> 0]
YieldedState(a) == [tag |-> "Yielded", val |-> a]

\* Some(Box::new(GeneratorState::Complete(r)))
CompleteState(r) == [tag |-> "Complete", val |-> r]

\* ptr.align_offset(STACK_ALIGNMENT) of a *mut u8
AlignOffset(p) == (STACK_ALIGNMENT - (p % STACK_ALIGNMENT)) % STACK_ALIGNMENT

\* "Calculate the aligned top of the stack."
StackTopOnePastEnd(base, len, up) ==
    IF up
    THEN base + AlignOffset(base)
    ELSE LET top == base + len IN
         IF AlignOffset(top) # 0
         THEN LET t == top - STACK_ALIGNMENT IN t + AlignOffset(t)
         ELSE top
StackTop(base, len, up) ==
    IF up
    THEN base + AlignOffset(base)
    ELSE LET top == base + (len - 1) IN
         IF AlignOffset(top) # 0
         THEN LET t == top - STACK_ALIGNMENT IN t + AlignOffset(t)
         ELSE top

\* The slot callback's first jump_swap switches into: (*coro).parent
CallbackOutSlotCtx == ctxParent
CallbackOutSlot == coParent

\* assert!(stack.len() >= STACK_MINIMUM)
StackOkStrict(len) == len > STACK_MINIMUM
StackOk(len) == len >= STACK_MINIMUM

\* if self.0.canceled { return Err(Canceled(())) } ahead of the write
YieldPrecheckMissing(c) == FALSE
YieldPrecheck(c) == c

\* the volatile read and the second read of canceled after the swap returned
YieldRecheckInverted(c) == ~c
YieldRecheckSkipped(c) == FALSE
YieldRecheck(c) == c

\* x.canceled = true in drop
CancelOnDropMissing(c) == c
CancelOnDrop(c) == TRUE

\* `match self.ctx { None => panic!(..) }` in resume
ResumePanicsNever(some) == FALSE
ResumePanics(some) == ~some

\* `if let GeneratorState::Complete(_) = state` in resume
IsCompleteNever(s) == FALSE
IsComplete(s) == s.tag = "Complete"

\* `if let Ok(r) = (fnc)(..)` writes Complete(r) with arg.replace
CallbackStoreSkipped(old, r) == old
CallbackStore(old, r) == CompleteState(r)

\* What arg.take() leaves in the slot.
TakePeeks(old) == old
TakeLeaves(old) == NoneState

\* The driver call in progress, from the position of the driver.
DriverOp ==
    CASE dpc \in {"new_wait", "new_back"} -> "new"
      [] dpc \in {"resume_wait", "resume_back"} -> "resume"
      [] dpc \in {"drop_wait", "drop_back"} -> "drop"
      [] OTHER -> "none"

\* Where a driver that is waiting inside jump_init / jump_swap continues.
DriverBack(d) ==
    CASE d = "new_wait" -> "new_back"
      [] d = "resume_wait" -> "resume_back"
      [] d = "drop_wait" -> "drop_back"
      [] OTHER -> d

\* What jump_init and jump_swap leave in the slot they save into: the state
\* of the driver call that makes the switch.
SavedState(call) == call

\* Where the body continues when the driver swaps into Context.child.
BodyBack(child) == IF child = "cb" THEN "cb_resumed" ELSE "yield_back"

\* The observable state of the coroutine object.
CoState ==
    IF ~ctxSome THEN "Finished"
    ELSE IF bpc = "cb_parked" THEN "Fresh"
    ELSE IF bpc = "yield_parked" THEN "Suspended"
    ELSE "Finished"

\* Swapping into a body context whose trampoline already ran jump_into
\* re-enters frames of a stack that was abandoned: the saved registers and
\* the frames are usually still there and execution goes on from the saved
\* point, or the process dies.
SwitchOutcomes == IF bpc = "gone" THEN {"continue", "crash"} ELSE {"continue"}

\* ------------------------------------------------------------------- Init

InitCoroutine ==
    /\ lifecycle = "none"
    /\ ctxSome = FALSE
    /\ arg = NoneState
    /\ canceled = FALSE
    /\ coParent = 0
    /\ ctxParent = 0
    /\ ctxChild = "null"
    /\ running = "driver"
    /\ dpc = "idle"
    /\ bpc = "unborn"
    /\ hasCtl = FALSE
    /\ ret = 0
    /\ callId = 0
    /\ results = <<>>
    /\ handed = NoneState
    /\ yieldArgs = <<>>
    /\ yieldLog = <<>>
    /\ invocations = 0
    /\ installs = 0
    /\ afterInstall = 0
    /\ switches = 0
    /\ dropFrom = "n/a"
    /\ releasedAt = "n/a"
    /\ lastEntry = 0
    /\ lastJump = [via |-> "none", held |-> 0, entry |-> 0]

Init ==
    /\ InitCoroutine
    /\ stackLen = 0
    /\ stackBase = 0
    /\ growsUp \in BOOLEAN
    /\ stackTop = 0

\* -------------------------------------------------------- context switches

\* jump_swap(p.parent, p.child) of resume and drop: the driver call now being
\* made saves its state in Context.parent and the body goes on from the state
\* saved in Context.child.
SwapIntoChild(outcome, wait) ==
    /\ ctxParent' = SavedState(callId + 1)
    /\ lastEntry' = callId + 1
    /\ switches' = switches + 1
    /\ afterInstall' = IF bpc = "gone" THEN afterInstall + 1 ELSE afterInstall
    /\ dpc' = wait
    /\ IF outcome = "crash"
       THEN /\ lifecycle' = "crashed"
            /\ running' = "halted"
            /\ bpc' = bpc
       ELSE /\ lifecycle' = lifecycle
            /\ running' = "body"
            /\ bpc' = BodyBack(ctxChild)

\* jump_swap(.., slot) and jump_into(slot) of the body: the driver goes on
\* inside the call whose state the slot holds.  A slot that does not hold the
\* state of the driver call in progress is a jump into a dead frame.
JumpToDriver(slot) ==
    /\ switches' = switches + 1
    /\ IF slot = callId
       THEN /\ running' = "driver"
            /\ dpc' = DriverBack(dpc)
            /\ lifecycle' = lifecycle
       ELSE /\ running' = "halted"
            /\ dpc' = dpc
            /\ lifecycle' = "crashed"

\* ------------------------------------------------------------ the driver

\* Coroutine::new: the assertion, the allocation of the Coroutine and of its
\* Context, and jump_init, which saves the driver in Coroutine.parent and
\* enters callback on the new stack.
New(base, len) ==
    /\ lifecycle = "none" /\ running = "driver" /\ dpc = "idle"
    /\ stackBase' = base
    /\ stackLen' = len
    /\ callId' = callId + 1
    /\ IF ~StackOk(len)
       THEN /\ lifecycle' = "panicked"
            /\ UNCHANGED <<ctxVars, running, dpc, bpc, switches, lastEntry,
                           stackTop>>
       ELSE /\ lifecycle' = "live"
            /\ stackTop' = StackTop(base, len, growsUp)
            /\ lastEntry' = callId + 1
            /\ ctxSome' = TRUE
            /\ arg' = NoneState
            /\ canceled' = FALSE
            /\ ctxParent' = 0
            /\ ctxChild' = "null"
            /\ coParent' = SavedState(callId + 1)
            /\ running' = "body"
            /\ dpc' = "new_wait"
            /\ bpc' = "cb_entry"
            /\ switches' = switches + 1
    /\ UNCHANGED <<hasCtl, ret, results, handed, yieldArgs, yieldLog,
                   invocations, installs, afterInstall, dropFrom, releasedAt>>
    /\ UNCHANGED <<lastJump, growsUp>>

\* Coroutine::new after jump_init came back: return the Box.
NewReturn ==
    /\ running = "driver" /\ dpc = "new_back"
    /\ dpc' = "idle"
    /\ UNCHANGED <<lifecycle, stackLen, ctxVars, running, bpc, hasCtl, ret,
                   callId, hist>>
    /\ UNCHANGED <<lastEntry, lastJump, stackVars>>

\* Generator::resume up to its jump_swap: panic when ctx is None, else clear
\* the slot and swap into the body.
Resume ==
    /\ lifecycle = "live" /\ running = "driver" /\ dpc = "idle"
    /\ Len(results) < MaxResumes
    /\ callId' = callId + 1
    /\ handed' = NoneState
    /\ IF ResumePanics(ctxSome)
       THEN /\ results' = Append(results, [tag |-> "Panic", val |-> 0,
                                           entered |-> FALSE, body |-> NoneState])
            /\ UNCHANGED <<lifecycle, arg, ctxParent, running, dpc, bpc,
                           switches, afterInstall, lastEntry>>
       ELSE /\ arg' = NoneState
            /\ \E o \in SwitchOutcomes : SwapIntoChild(o, "resume_wait")
            /\ UNCHANGED results
    /\ UNCHANGED <<stackLen, ctxSome, canceled, coParent, ctxChild, hasCtl, ret,
                   yieldArgs, yieldLog, invocations, installs, dropFrom,
                   releasedAt>>
    /\ UNCHANGED <<lastJump, stackVars>>

\* Generator::resume after its jump_swap came back: take the slot (unwrap
\* panics on None), release the Context on Complete, return the state.
ResumeReturn ==
    /\ running = "driver" /\ dpc = "resume_back"
    /\ dpc' = "idle"
    /\ IF arg = NoneState
       THEN /\ results' = Append(results, [tag |-> "Panic", val |-> 0,
                                           entered |-> TRUE, body |-> handed])
            /\ UNCHANGED <<arg, canceled, ctxSome, releasedAt>>
       ELSE /\ results' = Append(results, [tag |-> arg.tag, val |-> arg.val,
                                           entered |-> TRUE, body |-> handed])
            /\ arg' = TakeLeaves(arg)
            /\ IF IsComplete(arg)
               THEN /\ canceled' = TRUE
                    /\ ctxSome' = FALSE
                    /\ releasedAt' = bpc
               ELSE UNCHANGED <<canceled, ctxSome, releasedAt>>
    /\ UNCHANGED <<lifecycle, stackLen, coParent, ctxParent, ctxChild, running,
                   bpc, hasCtl, ret, callId, handed, yieldArgs, yieldLog,
                   invocations, installs, afterInstall, switches, dropFrom>>
    /\ UNCHANGED <<lastEntry, lastJump, stackVars>>

\* Drop for Coroutine up to its jump_swap: nothing to do when ctx is None,
\* else set canceled and swap into the body.
Drop ==
    /\ lifecycle = "live" /\ running = "driver" /\ dpc = "idle"
    /\ callId' = callId + 1
    /\ dropFrom' = CoState
    /\ handed' = NoneState
    /\ IF ~ctxSome
       THEN /\ lifecycle' = "dropped"
            /\ UNCHANGED <<canceled, ctxParent, running, dpc, bpc, switches,
                           afterInstall, lastEntry>>
       ELSE /\ canceled' = CancelOnDrop(canceled)
            /\ \E o \in SwitchOutcomes : SwapIntoChild(o, "drop_wait")
    /\ UNCHANGED <<stackLen, ctxSome, arg, coParent, ctxChild, hasCtl, ret,
                   results, yieldArgs, yieldLog, invocations, installs,
                   releasedAt>>
    /\ UNCHANGED <<lastJump, stackVars>>

\* Drop for Coroutine after its jump_swap came back: the fields of the
\* Coroutine (ctx, func) are dropped.
DropReturn ==
    /\ running = "driver" /\ dpc = "drop_back"
    /\ dpc' = "idle"
    /\ lifecycle' = "dropped"
    /\ ctxSome' = FALSE
    /\ releasedAt' = bpc
    /\ UNCHANGED <<stackLen, arg, canceled, coParent, ctxParent, ctxChild,
                   running, bpc, hasCtl, ret, callId, results, handed,
                   yieldArgs, yieldLog, invocations, installs, afterInstall,
                   switches, dropFrom>>
    /\ UNCHANGED <<lastEntry, lastJump, stackVars>>

\* -------------------------------------------------------------- the body

\* callback, entered by jump_init: save the body in Context.child and swap
\* out through Coroutine.parent.
CallbackNoSwapOut ==
    /\ running = "body" /\ bpc = "cb_entry"
    /\ bpc' = "closure"
    /\ hasCtl' = TRUE
    /\ invocations' = invocations + 1
    /\ UNCHANGED <<lifecycle, stackLen, ctxVars, running, dpc, ret, callId,
                   results, handed, yieldArgs, yieldLog, installs, afterInstall,
                   switches, dropFrom, releasedAt>>
    /\ UNCHANGED <<lastEntry, lastJump, stackVars>>

CallbackSwapOut ==
    /\ running = "body" /\ bpc = "cb_entry"
    /\ ctxChild' = "cb"
    /\ bpc' = "cb_parked"
    /\ lastJump' = [via |-> "Coroutine.parent", held |-> CallbackOutSlot,
                    entry |-> lastEntry]
    /\ JumpToDriver(CallbackOutSlot)
    /\ UNCHANGED <<stackLen, ctxSome, arg, canceled, coParent, ctxParent,
                   hasCtl, ret, callId, results, handed, yieldArgs, yieldLog,
                   invocations, installs, afterInstall, dropFrom, releasedAt>>
    /\ UNCHANGED <<lastEntry, stackVars>>

\* callback after its jump_swap came back: call the closure with a Control.
CallbackCallClosure ==
    /\ running = "body" /\ bpc = "cb_resumed"
    /\ bpc' = "closure"
    /\ hasCtl' = TRUE
    /\ invocations' = invocations + 1
    /\ UNCHANGED <<lifecycle, stackLen, ctxVars, running, dpc, ret, callId,
                   results, handed, yieldArgs, yieldLog, installs, afterInstall,
                   switches, dropFrom, releasedAt>>
    /\ UNCHANGED <<lastEntry, lastJump, stackVars>>

\* Control::yield up to its jump_swap: Err(Canceled) when canceled is set,
\* else write Yielded(v) into the slot.
YieldCall(v) ==
    /\ running = "body" /\ bpc = "closure" /\ hasCtl
    /\ hasCtl' = FALSE
    /\ IF YieldPrecheck(canceled)
       THEN /\ yieldLog' = Append(yieldLog, [arg |-> v, res |-> "Canceled",
                                             switched |-> FALSE,
                                             during |-> DriverOp])
            /\ UNCHANGED <<arg, bpc, handed, yieldArgs>>
       ELSE /\ arg' = YieldedState(v)
            /\ bpc' = "yield_wrote"
            /\ handed' = [tag |-> "Yielded", val |-> v]
            /\ yieldArgs' = Append(yieldArgs, v)
            /\ UNCHANGED yieldLog
    /\ UNCHANGED <<lifecycle, stackLen, ctxSome, canceled, coParent, ctxParent,
                   ctxChild, running, dpc, ret, callId, results, invocations,
                   installs, afterInstall, switches, dropFrom, releasedAt>>
    /\ UNCHANGED <<lastEntry, lastJump, stackVars>>

\* Control::yield: jump_swap(child, parent).
YieldSwap ==
    /\ running = "body" /\ bpc = "yield_wrote"
    /\ ctxChild' = "yield"
    /\ bpc' = "yield_parked"
    /\ lastJump' = [via |-> "Context.parent", held |-> ctxParent,
                    entry |-> lastEntry]
    /\ JumpToDriver(ctxParent)
    /\ UNCHANGED <<stackLen, ctxSome, arg, canceled, coParent, ctxParent,
                   hasCtl, ret, callId, results, handed, yieldArgs, yieldLog,
                   invocations, installs, afterInstall, dropFrom, releasedAt>>
    /\ UNCHANGED <<lastEntry, stackVars>>

\* Control::yield after its jump_swap came back: read canceled again and
\* return Err(Canceled) or Ok(self).
YieldReturnClearsFlag ==
    /\ running = "body" /\ bpc = "yield_back"
    /\ bpc' = "closure"
    /\ hasCtl' = ~YieldRecheck(canceled)
    /\ canceled' = FALSE
    /\ yieldLog' = Append(yieldLog,
          [arg |-> IF yieldArgs = <<>> THEN 0 ELSE yieldArgs[Len(yieldArgs)],
           res |-> IF YieldRecheck(canceled) THEN "Canceled" ELSE "Ok",
           switched |-> TRUE,
           during |-> DriverOp])
    /\ UNCHANGED <<lifecycle, stackLen, ctxSome, arg, coParent, ctxParent,
                   ctxChild, running, dpc, ret, callId, results, handed,
                   yieldArgs, invocations, installs, afterInstall, switches,
                   dropFrom, releasedAt>>
    /\ UNCHANGED <<lastEntry, lastJump, stackVars>>

YieldReturn ==
    /\ running = "body" /\ bpc = "yield_back"
    /\ bpc' = "closure"
    /\ hasCtl' = ~YieldRecheck(canceled)
    /\ yieldLog' = Append(yieldLog,
          [arg |-> IF yieldArgs = <<>> THEN 0 ELSE yieldArgs[Len(yieldArgs)],
           res |-> IF YieldRecheck(canceled) THEN "Canceled" ELSE "Ok",
           switched |-> TRUE,
           during |-> DriverOp])
    /\ UNCHANGED <<lifecycle, stackLen, ctxVars, running, dpc, ret, callId,
                   results, handed, yieldArgs, invocations, installs,
                   afterInstall, switches, dropFrom, releasedAt>>
    /\ UNCHANGED <<lastEntry, lastJump, stackVars>>

\* The closure returns Ok(Finished(r)), through Control::done or directly.
ClosureOk(r) ==
    /\ running = "body" /\ bpc = "closure"
    /\ bpc' = "ret_ok"
    /\ ret' = r
    /\ hasCtl' = FALSE
    /\ handed' = [tag |-> "Complete", val |-> r]
    /\ UNCHANGED <<lifecycle, stackLen, ctxVars, running, dpc, callId, results,
                   yieldArgs, yieldLog, invocations, installs, afterInstall,
                   switches, dropFrom, releasedAt>>
    /\ UNCHANGED <<lastEntry, lastJump, stackVars>>

\* The closure returns Err(Canceled).
ClosureErr ==
    /\ running = "body" /\ bpc = "closure"
    /\ bpc' = "terminal"
    /\ hasCtl' = FALSE
    /\ handed' = [tag |-> "Err", val |-> 0]
    /\ UNCHANGED <<lifecycle, stackLen, ctxVars, running, dpc, ret, callId,
                   results, yieldArgs, yieldLog, invocations, installs,
                   afterInstall, switches, dropFrom, releasedAt>>
    /\ UNCHANGED <<lastEntry, lastJump, stackVars>>

\* callback: the closure returned Ok(r), write Complete(r) into the slot.
CallbackComplete ==
    /\ running = "body" /\ bpc = "ret_ok"
    /\ bpc' = "terminal"
    /\ arg' = CallbackStore(arg, ret)
    /\ UNCHANGED <<lifecycle, stackLen, ctxSome, canceled, coParent, ctxParent,
                   ctxChild, running, dpc, hasCtl, ret, callId, hist>>
    /\ UNCHANGED <<lastEntry, lastJump, stackVars>>

\* callback: jump_into(Context.parent), never to come back.
CallbackInstall ==
    /\ running = "body" /\ bpc = "terminal"
    /\ bpc' = "gone"
    /\ installs' = installs + 1
    /\ lastJump' = [via |-> "Context.parent", held |-> ctxParent,
                    entry |-> lastEntry]
    /\ JumpToDriver(ctxParent)
    /\ UNCHANGED <<stackLen, ctxVars, hasCtl, ret, callId, results, handed,
                   yieldArgs, yieldLog, invocations, afterInstall, dropFrom,
                   releasedAt>>
    /\ UNCHANGED <<lastEntry, stackVars>>

Next ==
    \/ \E base \in StackBases, len \in StackLens : New(base, len)
    \/ NewReturn
    \/ Resume
    \/ ResumeReturn
    \/ Drop
    \/ DropReturn
    \/ CallbackSwapOut
    \/ CallbackCallClosure
    \/ \E v \in YieldVals : YieldCall(v)
    \/ YieldSwap
    \/ YieldReturn
    \/ \E r \in DoneVals : ClosureOk(r)
    \/ ClosureErr
    \/ CallbackComplete
    \/ CallbackInstall

Spec == Init /\ [][Next]_vars

\* ---------------------------------------------------- the top of the stack

\* The computation of the top alone, for every buffer of TopBases x TopLens
\* and both directions of growth.
TopInit ==
    /\ InitCoroutine
    /\ stackBase \in TopBases
    /\ stackLen \in TopLens
    /\ growsUp \in BOOLEAN
    /\ stackTop = 0

ComputeTop ==
    /\ lifecycle = "none" /\ stackTop = 0 /\ StackOk(stackLen)
    /\ stackTop' = StackTop(stackBase, stackLen, growsUp)
    /\ UNCHANGED <<lifecycle, stackLen, ctxVars, running, dpc, bpc, hasCtl, ret,
                   callId, hist, lastEntry, lastJump, stackBase, growsUp>>

TopNext == ComputeTop

TopSpec == TopInit /\ [][TopNext]_vars

\* ------------------------------------------------------------- properties

\* The values the resume calls returned, in order (a panic returns none).
Returned == SelectSeq(results, LAMBDA e : e.tag # "Panic")

\* The Yielded values the resume calls returned, in order.
ReturnedYields == SelectSeq(results, LAMBDA e : e.tag = "Yielded")

\* The returns of yield calls that were Err(Canceled).
CanceledReturns == {k \in DOMAIN yieldLog : yieldLog[k].res = "Canceled"}

\* C1: resume returns Complete at most once, and every resume call made
\* after a resume returned Complete panics without switching into the body.
C1_SingleCompletion ==
    /\ Cardinality({k \in DOMAIN results : results[k].tag = "Complete"}) <= 1
    /\ \A i, j \in DOMAIN results :
          (i < j /\ results[i].tag = "Complete") =>
              (results[j].tag = "Panic" /\ ~results[j].entered)

C1_Witness ==
    \E i, j \in DOMAIN results :
        i < j /\ results[i].tag = "Complete" /\ results[j].tag = "Panic"

\* C2: the values returned by the successive resume calls are zero or more
\* Yielded, then at most one Complete, and nothing after the Complete.
C2_YieldedThenComplete ==
    /\ \A k \in 1..(Len(Returned) - 1) : Returned[k].tag = "Yielded"
    /\ \A k \in DOMAIN Returned : Returned[k].tag \in {"Yielded", "Complete"}

C2_Witness ==
    /\ Len(Returned) = 3
    /\ Returned[1].tag = "Yielded"
    /\ Returned[2].tag = "Yielded"
    /\ Returned[3].tag = "Complete"

\* C3: a resume call returns Yielded(v) exactly when the body's yield call
\* of that resume was made with v and Complete(r) exactly when the body
\* finished with Ok(Finished(r)) in it; the Yielded values the driver got are
\* the arguments of the body's yield calls, one for one and in order.
C3_ValueFidelity ==
    /\ \A k \in DOMAIN results :
          LET e == results[k] IN
          /\ (e.tag = "Yielded") <=> (e.body.tag = "Yielded")
          /\ (e.tag = "Complete") <=> (e.body.tag = "Complete")
          /\ (e.tag # "Panic") => (e.val = e.body.val)
    /\ Len(ReturnedYields) <= Len(yieldArgs)
    /\ \A k \in DOMAIN ReturnedYields : ReturnedYields[k].val = yieldArgs[k]
    /\ (dpc = "idle") => (Len(ReturnedYields) = Len(yieldArgs))

C3_Witness ==
    /\ Len(results) = 3
    /\ results[1].tag = "Yielded" /\ results[1].val = 2
    /\ results[2].tag = "Yielded" /\ results[2].val = 1
    /\ results[3].tag = "Complete" /\ results[3].val = 2

\* C4: when the driver drops the coroutine while the body is paused inside a
\* yield call, that yield call returns Canceled, and it is the only Canceled
\* the body ever receives.
C4_CancelOnSuspendedDrop ==
    (dropFrom = "Suspended") =>
        /\ Cardinality(CanceledReturns) <= 1
        /\ (bpc = "yield_back") => (CanceledReturns = {})
        /\ (bpc # "yield_back") =>
              /\ CanceledReturns = {Len(yieldLog)}
              /\ yieldLog[Len(yieldLog)].switched
              /\ yieldLog[Len(yieldLog)].during = "drop"
              /\ yieldLog[Len(yieldLog)].arg = yieldArgs[Len(yieldArgs)]

C4_Witness ==
    /\ dropFrom = "Suspended"
    /\ lifecycle = "dropped"
    /\ Cardinality(CanceledReturns) = 1

\* C5: a yield call returns Err(Canceled) only when the driver has dropped
\* the coroutine; a yield call that returns while the driver is inside resume
\* returns Ok(Control).
C5_CanceledOnlyOnDrop ==
    \A k \in DOMAIN yieldLog :
        /\ (yieldLog[k].res = "Canceled") =>
              (yieldLog[k].during = "drop" /\ dropFrom # "n/a")
        /\ (yieldLog[k].during = "resume") => (yieldLog[k].res = "Ok")

C5_Witness ==
    /\ \E k \in DOMAIN yieldLog :
          yieldLog[k].during = "resume" /\ yieldLog[k].res = "Ok"
    /\ \E k \in DOMAIN yieldLog : yieldLog[k].res = "Canceled"

\* C6: every resume call that enters the body returns Yielded or Complete:
\* when control is back in resume, the transfer slot holds a value.
C6_ResumeReturnsValue ==
    /\ (dpc = "resume_back") => (arg # NoneState)
    /\ \A k \in DOMAIN results : results[k].entered => (results[k].tag # "Panic")

\* C7: when the coroutine is dropped before any resume, no yield call writes
\* the slot or switches to the driver (each returns Canceled at once),
\* nothing panics, and drop goes on until it has returned.
C7_EarlyDrop ==
    (dropFrom = "Fresh") =>
        /\ yieldArgs = <<>>
        /\ results = <<>>
        /\ arg.tag # "Yielded"
        /\ \A k \in DOMAIN yieldLog :
              /\ yieldLog[k].res = "Canceled"
              /\ ~yieldLog[k].switched
              /\ yieldLog[k].during = "drop"
        /\ lifecycle # "crashed"
        /\ (lifecycle = "dropped") \/ (ENABLED Next)

C7_Witness ==
    /\ dropFrom = "Fresh"
    /\ lifecycle = "dropped"
    /\ yieldLog # <<>>

C9_ReleasedAfterBodyEnded ==
    /\ releasedAt \in {"n/a", "gone"}
    /\ (lifecycle \in {"live", "dropped"} /\ dpc = "idle" /\ ~ctxSome) =>
          (bpc = "gone" /\ installs >= 1)

C9_Witness ==
    /\ releasedAt = "gone"
    /\ dropFrom = "Suspended"
    /\ lifecycle = "dropped"

\* C10: after the trampoline's terminal jump_into no operation of the driver
\* switches into the body context again, and the closure is invoked at most
\* once.
C10_NoSwitchAfterInstall ==
    /\ afterInstall = 0
    /\ invocations <= 1

\* C11: while Coroutine::new runs and when it has returned, the trampoline
\* is parked in its first jump_swap and the closure has not been invoked; the
\* first resume calls the closure once, from its beginning, with a Control.
C11_ConstructionParksTrampoline ==
    /\ (DriverOp = "new" \/ (lifecycle = "live" /\ callId = 1)) =>
          /\ invocations = 0
          /\ ~hasCtl
          /\ bpc \in {"cb_entry", "cb_parked"}
    /\ (lifecycle = "live" /\ callId = 1 /\ dpc \in {"new_back", "idle"}) =>
          /\ bpc = "cb_parked"
          /\ ctxChild = "cb"
          /\ running = "driver"
    /\ (callId = 2 /\ DriverOp = "resume" /\ running = "body") =>
          /\ (bpc = "cb_resumed") => (invocations = 0)
          /\ (bpc # "cb_resumed") => (invocations = 1)
          /\ (bpc = "closure") => (hasCtl /\ yieldLog = <<>> /\ yieldArgs = <<>>)

C11_Witness ==
    /\ callId = 2
    /\ DriverOp = "resume"
    /\ bpc = "closure"
    /\ invocations = 1

\* C12: canceled is false in a new context record, and once it is true no
\* step of new, resume, yield, done or drop makes it false again.
C12_CanceledMonotonic ==
    /\ ~canceled
    /\ [][/\ canceled => canceled'
          /\ (lifecycle = "none" /\ lifecycle' = "live") => ~canceled']_vars

C12_Witness ==
    /\ canceled
    /\ dropFrom = "Suspended"
    /\ bpc = "closure"

\* C13: the slot is empty when the body writes Yielded or Complete, the step
\* after such a write is the switch to the driver, and the slot is empty
\* whenever resume has returned.
C13_SlotAlternation ==
    [][/\ ((bpc = "closure" /\ bpc' = "yield_wrote") \/ (bpc = "ret_ok" /\ bpc' = "terminal"))
            => (arg = NoneState /\ arg' # NoneState)
       /\ (bpc \in {"yield_wrote", "ret_ok"} \/ (bpc = "terminal" /\ arg # NoneState))
            => (bpc' = "terminal" \/ running' # "body")
       /\ (arg' # arg /\ arg' # NoneState) => (running = "body" /\ bpc' \in {"yield_wrote", "terminal"})
       /\ (lifecycle' = "live" /\ dpc' = "idle") => (arg' = NoneState)]_vars

C13_Witness ==
    /\ bpc = "terminal"
    /\ arg.tag = "Complete"
    /\ DriverOp = "resume"
    /\ \E k \in DOMAIN results : results[k].tag = "Yielded"

\* C15: dropping a coroutine that was never resumed calls the closure, once;
\* a completion value the closure returns in that run is written into the
\* slot and no resume ever returns it.
C15_FreshDropRunsBody ==
    (dropFrom = "Fresh") =>
        /\ results = <<>>
        /\ (bpc = "cb_resumed") => (invocations = 0)
        /\ (bpc # "cb_resumed") => (invocations = 1)
        /\ (bpc \in {"terminal", "gone"} /\ handed.tag = "Complete") =>
              (arg = [tag |-> "Complete", val |-> handed.val])
        /\ (lifecycle = "dropped") => (bpc = "gone" /\ handed.tag \in {"Complete", "Err"})

C15_Witness ==
    /\ dropFrom = "Fresh"
    /\ lifecycle = "dropped"
    /\ arg.tag = "Complete"
    /\ arg.val = 2
    /\ invocations = 1

\* C14: for every base address and every length >= STACK_MINIMUM the top is
\* a multiple of 16 inside the buffer: the address of the last byte rounded
\* down to 16 on a stack that grows down (the last byte itself when its
\* address is aligned), the address of the first byte rounded up to 16 on a
\* stack that grows up.
C14_AlignedTop ==
    (stackTop # 0) =>
        /\ stackTop % STACK_ALIGNMENT = 0
        /\ stackBase <= stackTop
        /\ stackTop <= stackBase + stackLen - 1
        /\ (~growsUp) =>
              (stackTop = ((stackBase + stackLen - 1) \div STACK_ALIGNMENT) * STACK_ALIGNMENT)
        /\ growsUp =>
              (stackTop = ((stackBase + STACK_ALIGNMENT - 1) \div STACK_ALIGNMENT) * STACK_ALIGNMENT)

C14_Witness ==
    /\ stackTop # 0
    /\ ~growsUp
    /\ (stackBase + stackLen - 1) % STACK_ALIGNMENT = 0
    /\ stackTop = stackBase + stackLen - 1

\* C16: every switch from the body to the driver goes through a slot that
\* holds the state saved by the driver call that made the latest switch into
\* the body: the trampoline's first swap through Coroutine.parent, each yield
\* and the terminal jump_into through Context.parent.  No such switch uses a
\* null slot or the state of an earlier driver call.
C16_JumpsIntoFreshDriverState ==
    /\ (lastJump.via # "none") =>
          /\ lastJump.held # 0
          /\ lastJump.held = lastJump.entry
    /\ (bpc = "cb_parked" /\ DriverOp = "new") => (lastJump.via = "Coroutine.parent")
    /\ (bpc \in {"yield_parked", "gone"} /\ dpc \in {"resume_back", "drop_back"}) =>
          (lastJump.via = "Context.parent")
    /\ (running = "halted") => (afterInstall >= 1)

C16_Witness ==
    /\ lastJump.via = "Context.parent"
    /\ lastJump.held = 4
    /\ bpc = "gone"
    /\ dpc = "drop_back"

====
